---- MODULE Spec2Model ----
\* Model of main.py: a command-line program that builds one e-mail,
\* reconciles attachment paths against dispositions, and sends it once.
\* Strings are sequences of one-character strings, so that str.split and
\* str.strip are computed character by character.
EXTENDS Integers, Sequences, FiniteSets, TLC

\* ---------------------------------------------------------------- bounds
MaxPaths == 2
MaxPathLen == 1
MaxDisp == 3

\* ------------------------------------------------------------- constants
Chars == {"a", " ", "\n"}
Whitespace == {" ", "\n"}
NotExited == 0 - 1

\* class AttachmentDisposition
INLINE == <<"i", "n", "l", "i", "n", "e">>
ATTACHMENT == <<"a", "t", "t", "a", "c", "h", "m", "e", "n", "t">>
EMPTY == <<>>
AttachmentDisposition == {INLINE, ATTACHMENT, EMPTY}

\* Optional values (None / a list)
None == [some |-> FALSE, v |-> <<>>]
Some(l) == [some |-> TRUE, v |-> l]

SeqsUpTo(S, n) == UNION {[1..k -> S] : k \in 0..n}

\* ------------------------------------------------------- pure functions
\* "\n" in s
HasNewline(s) == \E i \in 1..Len(s) : s[i] = "\n"

RECURSIVE lstrip(_, _)
lstrip(s, chars) ==
    IF s = <<>> THEN s
    ELSE IF Head(s) \in chars THEN lstrip(Tail(s), chars) ELSE s

RECURSIVE rstrip(_, _)
rstrip(s, chars) ==
    IF s = <<>> THEN s
    ELSE IF s[Len(s)] \in chars THEN rstrip(SubSeq(s, 1, Len(s) - 1), chars) ELSE s

\* str.strip
strip(s, chars) == rstrip(lstrip(s, chars), chars)

\* str.split(sep) for a one-character separator
RECURSIVE split(_, _)
split(s, sep) ==
    IF \A i \in 1..Len(s) : s[i] # sep THEN <<s>>
    ELSE LET i == CHOOSE k \in 1..Len(s) :
                      s[k] = sep /\ \A j \in 1..(k - 1) : s[j] # sep
         IN  <<SubSeq(s, 1, i - 1)>> \o split(SubSeq(s, i + 1, Len(s)), sep)

\* "\n".join(parts)
RECURSIVE join(_)
join(parts) ==
    IF parts = <<>> THEN <<>>
    ELSE IF Len(parts) = 1 THEN parts[1]
    ELSE parts[1] \o <<"\n">> \o join(Tail(parts))

is_not_empty(s) == s # <<>>

extract_str(s) == strip(strip(s, Whitespace), {"\n"})

convert_to_list_space(arg) ==
    LET parts == split(arg, " ")
        mapped == [k \in 1..Len(parts) |-> extract_str(parts[k])]
    IN  SelectSeq(mapped, is_not_empty)

convert_to_list(arg) ==
    LET parts == split(arg, "\n")
        mapped == [k \in 1..Len(parts) |-> extract_str(parts[k])]
    IN  SelectSeq(mapped, is_not_empty)

is_attachment_requested_bool_only(attachments) ==
    attachments.some /\ attachments.v # <<>>

\* bool(attachments) and attachments != [""]
is_attachment_requested(attachments) ==
    attachments.some /\ attachments.v # <<>> /\ attachments.v # << <<>> >>

Repeat(x, n) == [k \in 1..n |-> x]

reconcile_gt(attachments, dispositions) ==
    LET d0 == IF Len(dispositions) = 1 /\ dispositions[1] = EMPTY
              THEN <<>> ELSE dispositions
    IN  IF d0 = <<>>
        THEN [raises |-> FALSE, dispositions |-> Repeat(ATTACHMENT, Len(attachments))]
        ELSE IF Len(d0) = 1
        THEN [raises |-> FALSE, dispositions |-> Repeat(d0[1], Len(attachments))]
        ELSE IF Len(attachments) > Len(d0)
        THEN [raises |-> TRUE, dispositions |-> d0]
        ELSE [raises |-> FALSE, dispositions |-> d0]

reconcile_no_broadcast(attachments, dispositions) ==
    LET d0 == IF Len(dispositions) = 1 /\ dispositions[1] = EMPTY
              THEN <<>> ELSE dispositions
    IN  IF d0 = <<>>
        THEN [raises |-> FALSE, dispositions |-> Repeat(ATTACHMENT, Len(attachments))]
        ELSE IF Len(d0) = 1
        THEN [raises |-> FALSE, dispositions |-> d0]
        ELSE IF Len(attachments) # Len(d0)
        THEN [raises |-> TRUE, dispositions |-> d0]
        ELSE [raises |-> FALSE, dispositions |-> d0]

reconcile_no_sentinel(attachments, dispositions) ==
    LET d0 == dispositions
    IN  IF d0 = <<>>
        THEN [raises |-> FALSE, dispositions |-> Repeat(ATTACHMENT, Len(attachments))]
        ELSE IF Len(d0) = 1
        THEN [raises |-> FALSE, dispositions |-> Repeat(d0[1], Len(attachments))]
        ELSE IF Len(attachments) # Len(d0)
        THEN [raises |-> TRUE, dispositions |-> d0]
        ELSE [raises |-> FALSE, dispositions |-> d0]

\* add_attachments, lines 118-126: the disposition list the loop will zip
\* against the paths, or the ValueError
reconcile(attachments, dispositions) ==
    LET d0 == IF Len(dispositions) = 1 /\ dispositions[1] = EMPTY
              THEN <<>> ELSE dispositions
    IN  IF d0 = <<>>
        THEN [raises |-> FALSE, dispositions |-> Repeat(ATTACHMENT, Len(attachments))]
        ELSE IF Len(d0) = 1
        THEN [raises |-> FALSE, dispositions |-> Repeat(d0[1], Len(attachments))]
        ELSE IF Len(attachments) # Len(d0)
        THEN [raises |-> TRUE, dispositions |-> d0]
        ELSE [raises |-> FALSE, dispositions |-> d0]

Min(a, b) == IF a < b THEN a ELSE b

zip_reversed(xs, ys) ==
    [k \in 1..Min(Len(xs), Len(ys)) |-> <<xs[k], ys[Len(ys) + 1 - k]>>]

\* zip(attachments, dispositions): pairs, truncated to the shorter list
zip(xs, ys) == [k \in 1..Min(Len(xs), Len(ys)) |-> <<xs[k], ys[k]>>]

\* ------------------------------------------------------------------ state
VARIABLES
    pc,                          \* position in __main__ / add_attachments
    paths,                       \* the attachment paths the user means
    joined,                      \* TRUE: passed as one newline-joined value
    argv_attachments,            \* --attachments as typed (None when absent)
    argv_dispositions,           \* --attachments-disposition as typed
    args_attachments,            \* args.attachments
    args_attachments_disposition,\* args.attachments_disposition
    message,                     \* attachments of the Mail object, in order
    dispositions,                \* local `dispositions` of add_attachments
    pairs,                       \* remaining items of the zip iterator
    opened,                      \* files open() was called on, in order
    stdout,
    stderr,
    exitCode,
    error,                       \* class of the exception that ended the run
    exc,                         \* message of the exception caught at line 205
    sendCalls,                   \* number of sg.send calls
    response                     \* value returned by sg.send

vars == <<pc, paths, joined, argv_attachments, argv_dispositions,
          args_attachments, args_attachments_disposition, message,
          dispositions, pairs, opened, stdout, stderr, exitCode, error, exc,
          sendCalls, response>>

inputs == <<paths, joined, argv_attachments, argv_dispositions>>

PathStrings == SeqsUpTo(Chars, MaxPathLen)
PathLists == SeqsUpTo(PathStrings, MaxPaths)

INLINE_NL_ATTACHMENT == INLINE \o <<"\n">> \o ATTACHMENT

DispositionArgv ==
    {None} \cup {Some(l) : l \in SeqsUpTo(AttachmentDisposition, MaxDisp)}
           \cup {Some(<<INLINE_NL_ATTACHMENT>>), Some(<<INLINE, INLINE_NL_ATTACHMENT>>)}

NoResponse == [status_code |-> "", body |-> "", headers |-> ""]

Responses ==
    {[status_code |-> "202", body |-> "", headers |-> "X-Message-Id"],
     [status_code |-> "200", body |-> "ok", headers |-> "X-Message-Id"]}

SendErrors == {"HTTP Error 401: Unauthorized", "timed out"}

Init ==
    /\ pc = "parse_args"
    /\ \E given \in BOOLEAN :
         IF given
         THEN /\ paths \in PathLists
              /\ joined \in BOOLEAN
              /\ argv_attachments = IF joined THEN Some(<<join(paths)>>) ELSE Some(paths)
         ELSE /\ paths = <<>>
              /\ joined = FALSE
              /\ argv_attachments = None
    /\ argv_dispositions \in DispositionArgv
    /\ args_attachments = None
    /\ args_attachments_disposition = <<>>
    /\ message = <<>>
    /\ dispositions = <<>>
    /\ pairs = <<>>
    /\ opened = <<>>
    /\ stdout = <<>>
    /\ stderr = <<>>
    /\ exitCode = NotExited
    /\ error = ""
    /\ exc = ""
    /\ sendCalls = 0
    /\ response = NoResponse

\* ---------------------------------------------------------------- actions
\* An exception that nothing catches: traceback on stderr, exit status 1.
Uncaught(e) ==
    /\ pc' = "exited"
    /\ exitCode' = 1
    /\ error' = e
    /\ stderr' = Append(stderr, <<"Traceback", e>>)

\* parser.parse_args(): every --attachments-disposition value must be one of
\* the choices, otherwise argparse prints usage and exits with status 2.
ParseArgsInvalidChoice ==
    /\ pc = "parse_args"
    /\ argv_dispositions.some
    /\ \E k \in 1..Len(argv_dispositions.v) :
           argv_dispositions.v[k] \notin AttachmentDisposition
    /\ pc' = "exited"
    /\ exitCode' = 2
    /\ error' = "UsageError"
    /\ stderr' = Append(stderr, <<"usage", "invalid choice">>)
    /\ UNCHANGED <<inputs, args_attachments, args_attachments_disposition,
                   message, dispositions, pairs, opened, stdout, exc,
                   sendCalls, response>>

\* parser.parse_args() succeeds; print(args); Mail(...) is built.
ParseArgs ==
    /\ pc = "parse_args"
    /\ argv_dispositions.some =>
           \A k \in 1..Len(argv_dispositions.v) :
               argv_dispositions.v[k] \in AttachmentDisposition
    /\ args_attachments' = argv_attachments
    /\ args_attachments_disposition' =
           IF argv_dispositions.some THEN argv_dispositions.v ELSE <<ATTACHMENT>>
    /\ stdout' = Append(stdout, <<"args", "">>)
    /\ message' = <<>>
    /\ pc' = "walk"
    /\ UNCHANGED <<inputs, dispositions, pairs, opened, stderr, exitCode,
                   error, exc, sendCalls, response>>

\* print_dirs("/"), print_tree("/Users"), print_tree("/workspace"): only
\* PermissionError is caught, so a missing directory ends the run.
Walk ==
    /\ pc = "walk"
    /\ \E ok \in BOOLEAN :
         IF ok
         THEN /\ stdout' = Append(stdout, <<"tree", "">>)
              /\ pc' = "split_attachments"
              /\ UNCHANGED <<stderr, exitCode, error>>
         ELSE /\ Uncaught("WalkError")
              /\ UNCHANGED stdout
    /\ UNCHANGED <<inputs, args_attachments, args_attachments_disposition,
                   message, dispositions, pairs, opened, exc, sendCalls,
                   response>>

\* lines 186-187
SplitAttachments ==
    /\ pc = "split_attachments"
    /\ args_attachments' =
           IF /\ args_attachments.some
              /\ args_attachments.v # <<>>
              /\ Len(args_attachments.v) = 1
              /\ HasNewline(args_attachments.v[1])
           THEN Some(convert_to_list(args_attachments.v[1]))
           ELSE args_attachments
    /\ pc' = "split_dispositions"
    /\ UNCHANGED <<inputs, args_attachments_disposition, message, dispositions,
                   pairs, opened, stdout, stderr, exitCode, error, exc,
                   sendCalls, response>>

\* lines 189-194
SplitDispositions ==
    /\ pc = "split_dispositions"
    /\ args_attachments_disposition' =
           IF /\ args_attachments_disposition # <<>>
              /\ Len(args_attachments_disposition) = 1
              /\ HasNewline(args_attachments_disposition[1])
           THEN convert_to_list(args_attachments_disposition[1])
           ELSE args_attachments_disposition
    /\ pc' = "check_requested"
    /\ UNCHANGED <<inputs, args_attachments, message, dispositions, pairs,
                   opened, stdout, stderr, exitCode, error, exc, sendCalls,
                   response>>

\* line 196
CheckRequested ==
    /\ pc = "check_requested"
    /\ pc' = IF is_attachment_requested(args_attachments)
             THEN "add_attachments" ELSE "construct_client"
    /\ UNCHANGED <<inputs, args_attachments, args_attachments_disposition,
                   message, dispositions, pairs, opened, stdout, stderr,
                   exitCode, error, exc, sendCalls, response>>

\* add_attachments, lines 118-126
Reconcile ==
    /\ pc = "add_attachments"
    /\ LET r == reconcile(args_attachments.v, args_attachments_disposition)
       IN  IF r.raises
           THEN /\ Uncaught("ValueError")
                /\ UNCHANGED dispositions
           ELSE /\ dispositions' = r.dispositions
                /\ pc' = "find_file"
                /\ UNCHANGED <<stderr, exitCode, error>>
    /\ UNCHANGED <<inputs, args_attachments, args_attachments_disposition,
                   message, pairs, opened, stdout, exc, sendCalls, response>>

\* add_attachments, lines 128-136: find_file walks the filesystem (os.walk
\* swallows its own errors) and the result is printed; line 139 builds the zip.
FindFile ==
    /\ pc = "find_file"
    /\ \E found \in BOOLEAN :
         stdout' = stdout \o << <<"Searching", "">>,
                               <<IF found THEN "File found" ELSE "File not found", "">> >>
    /\ pairs' = zip(args_attachments.v, dispositions)
    /\ pc' = "attach_loop"
    /\ UNCHANGED <<inputs, args_attachments, args_attachments_disposition,
                   message, dispositions, opened, stderr, exitCode, error,
                   exc, sendCalls, response>>

\* lines 139-152, one iteration whose open()/read() succeeds
AttachOne ==
    /\ pc = "attach_loop"
    /\ pairs # <<>>
    /\ opened' = Append(opened, Head(pairs)[1])
    /\ message' = Append(message, [filepath |-> Head(pairs)[1],
                                   disposition |-> Head(pairs)[2]])
    /\ pairs' = Tail(pairs)
    /\ UNCHANGED <<pc, inputs, args_attachments, args_attachments_disposition,
                   dispositions, stdout, stderr, exitCode, error, exc,
                   sendCalls, response>>

AttachFail_swallowed ==
    /\ pc = "attach_loop"
    /\ pairs # <<>>
    /\ opened' = Append(opened, Head(pairs)[1])
    /\ error' = "OSError"
    /\ pc' = "construct_client"
    /\ UNCHANGED <<inputs, args_attachments, args_attachments_disposition,
                   message, dispositions, pairs, stdout, stderr, exitCode,
                   exc, sendCalls, response>>

\* lines 140-143, one iteration whose open()/read() raises: nothing catches it
AttachFail ==
    /\ pc = "attach_loop"
    /\ pairs # <<>>
    /\ opened' = Append(opened, Head(pairs)[1])
    /\ Uncaught("OSError")
    /\ UNCHANGED <<inputs, args_attachments, args_attachments_disposition,
                   message, dispositions, pairs, stdout, exc, sendCalls,
                   response>>

\* the for loop is exhausted; add_attachments returns
AttachDone ==
    /\ pc = "attach_loop"
    /\ pairs = <<>>
    /\ pc' = "construct_client"
    /\ UNCHANGED <<inputs, args_attachments, args_attachments_disposition,
                   message, dispositions, pairs, opened, stdout, stderr,
                   exitCode, error, exc, sendCalls, response>>

\* line 200
ConstructClient ==
    /\ pc = "construct_client"
    /\ \E ok \in BOOLEAN :
         IF ok
         THEN /\ pc' = "send"
              /\ UNCHANGED exc
         ELSE /\ pc' = "except"
              /\ exc' = "client construction failed"
    /\ UNCHANGED <<inputs, args_attachments, args_attachments_disposition,
                   message, dispositions, pairs, opened, stdout, stderr,
                   exitCode, error, sendCalls, response>>

\* line 201, sg.send(message) returns a response
SendReturns ==
    /\ pc = "send"
    /\ sendCalls' = sendCalls + 1
    /\ response' \in Responses
    /\ pc' = "print_response"
    /\ UNCHANGED <<inputs, args_attachments, args_attachments_disposition,
                   message, dispositions, pairs, opened, stdout, stderr,
                   exitCode, error, exc>>

\* line 201, sg.send(message) raises
SendRaises ==
    /\ pc = "send"
    /\ sendCalls' = sendCalls + 1
    /\ exc' \in SendErrors
    /\ pc' = "except"
    /\ UNCHANGED <<inputs, args_attachments, args_attachments_disposition,
                   message, dispositions, pairs, opened, stdout, stderr,
                   exitCode, error, response>>

PrintResponse_body_first ==
    /\ pc = "print_response"
    /\ stdout' = stdout \o << <<"body", response.body>>,
                             <<"status_code", response.status_code>>,
                             <<"headers", response.headers>> >>
    /\ pc' = "exited"
    /\ exitCode' = 0
    /\ UNCHANGED <<inputs, args_attachments, args_attachments_disposition,
                   message, dispositions, pairs, opened, stderr, error, exc,
                   sendCalls, response>>

\* lines 202-204, then the script ends: exit status 0
PrintResponse ==
    /\ pc = "print_response"
    /\ stdout' = stdout \o << <<"status_code", response.status_code>>,
                             <<"body", response.body>>,
                             <<"headers", response.headers>> >>
    /\ pc' = "exited"
    /\ exitCode' = 0
    /\ UNCHANGED <<inputs, args_attachments, args_attachments_disposition,
                   message, dispositions, pairs, opened, stderr, error, exc,
                   sendCalls, response>>

Except_retry ==
    /\ pc = "except"
    /\ IF sendCalls < 2
       THEN /\ pc' = "send"
            /\ UNCHANGED <<stderr, exitCode, error>>
       ELSE /\ stderr' = Append(stderr, <<"error", exc>>)
            /\ error' = "DeliveryError"
            /\ exitCode' = 1
            /\ pc' = "exited"
    /\ UNCHANGED <<inputs, args_attachments, args_attachments_disposition,
                   message, dispositions, pairs, opened, stdout, exc,
                   sendCalls, response>>

\* lines 205-207
Except ==
    /\ pc = "except"
    /\ stderr' = Append(stderr, <<"error", exc>>)
    /\ error' = "DeliveryError"
    /\ exitCode' = 1
    /\ pc' = "exited"
    /\ UNCHANGED <<inputs, args_attachments, args_attachments_disposition,
                   message, dispositions, pairs, opened, stdout, exc,
                   sendCalls, response>>

Next ==
    \/ ParseArgsInvalidChoice
    \/ ParseArgs
    \/ Walk
    \/ SplitAttachments
    \/ SplitDispositions
    \/ CheckRequested
    \/ Reconcile
    \/ FindFile
    \/ AttachOne
    \/ AttachFail
    \/ AttachDone
    \/ ConstructClient
    \/ SendReturns
    \/ SendRaises
    \/ PrintResponse
    \/ Except

Spec == Init /\ [][Next]_vars

\* ------------------------------------------------------------ properties
N == Len(args_attachments.v)
M == Len(args_attachments_disposition)

BeforeAddAttachments ==
    {"parse_args", "walk", "split_attachments", "split_dispositions",
     "check_requested"}

\* add_attachments was called and its reconciliation (lines 118-126) has run
Reconciled ==
    /\ is_attachment_requested(args_attachments)
    /\ pc \notin BeforeAddAttachments \cup {"add_attachments"}
    /\ error \notin {"UsageError", "WalkError"}

\* add_attachments was called and returned normally
Returned ==
    /\ Reconciled
    /\ pc \notin {"find_file", "attach_loop"}
    /\ error \notin {"ValueError", "OSError"}

AllAddedHave(d) == \A k \in 1..Len(message) : message[k].disposition = d

AddedInPathOrder ==
    /\ Len(message) <= N
    /\ \A k \in 1..Len(message) : message[k].filepath = args_attachments.v[k]

\* C1: with M > 1 dispositions and N # M attachment paths, add_attachments
\* raises ValueError and adds no attachment (reads no file), for every N.
C1_MismatchRaises ==
    (Reconciled /\ M > 1 /\ M # N) =>
        /\ error = "ValueError"
        /\ pc = "exited"
        /\ message = <<>>
        /\ opened = <<>>

C1_Witness ==
    /\ Reconciled /\ N = 1 /\ M > 1
    /\ error = "ValueError"

\* C2: with N > 1 paths and N dispositions nothing is raised by the
\* reconciliation, the k-th attachment added is the k-th path with the k-th
\* disposition, and a call that returns has added all N.
C2_PositionalPairing ==
    (Reconciled /\ N > 1 /\ M = N) =>
        /\ error # "ValueError"
        /\ AddedInPathOrder
        /\ \A k \in 1..Len(message) :
               message[k].disposition = args_attachments_disposition[k]
        /\ Returned => Len(message) = N

C2_Witness ==
    /\ Returned /\ N = 2 /\ M = 2
    /\ args_attachments_disposition = <<INLINE, ATTACHMENT>>
    /\ Len(message) = 2

\* C3 as stated: with exactly one disposition value d, every attachment
\* added has disposition d (and a call that returns has added all N).
C3_Original ==
    (Reconciled /\ M = 1) =>
        /\ error # "ValueError"
        /\ AllAddedHave(args_attachments_disposition[1])
        /\ Returned => Len(message) = N

\* C3 amended: with exactly one disposition value d other than the empty
\* string, every attachment added has disposition d, in path order, and a
\* call that returns has added all N.
C3_Broadcast ==
    (Reconciled /\ M = 1 /\ args_attachments_disposition[1] # EMPTY) =>
        /\ error # "ValueError"
        /\ AllAddedHave(args_attachments_disposition[1])
        /\ AddedInPathOrder
        /\ Returned => Len(message) = N

C3_Witness ==
    /\ Returned /\ N = 2
    /\ args_attachments_disposition = <<INLINE>>
    /\ Len(message) = 2

\* C4: with no disposition, or the single disposition "", every attachment
\* added has disposition "attachment", and a call that returns has added all N.
C4_DefaultDisposition ==
    (Reconciled /\ args_attachments_disposition \in {<<>>, <<EMPTY>>}) =>
        /\ error # "ValueError"
        /\ AllAddedHave(ATTACHMENT)
        /\ AddedInPathOrder
        /\ Returned => Len(message) = N

C4_Witness ==
    /\ Returned /\ N = 2
    /\ args_attachments_disposition = <<EMPTY>>
    /\ Len(message) = 2

C4_WitnessNone ==
    /\ Returned /\ N = 2
    /\ args_attachments_disposition = <<>>
    /\ Len(message) = 2

\* C5: a run in which the count check raised, or an attachment file could
\* not be read, has ended with a non-zero status and never called send.
C5_NoSendAfterPreSendFailure ==
    error \in {"ValueError", "OSError"} =>
        /\ pc = "exited"
        /\ exitCode # 0
        /\ sendCalls = 0
        /\ response = NoResponse

C5_Witness ==
    /\ error = "OSError"
    /\ Len(message) >= 1
    /\ sendCalls = 0
    /\ pc = "exited"

C5_WitnessMismatch ==
    /\ error = "ValueError"
    /\ sendCalls = 0
    /\ pc = "exited"

\* C6: once the client construction or the send has raised, the run goes
\* through the handler only: it ends with the exception's message as the one
\* line on the error stream and exit status 1; a raising send was the only
\* send call, and no send call follows a failure.
C6_SendFailure ==
    exc # "" =>
        /\ pc \in {"except", "exited"}
        /\ sendCalls = (IF exc \in SendErrors THEN 1 ELSE 0)
        /\ response = NoResponse
        /\ pc = "exited" =>
              /\ error = "DeliveryError"
              /\ exitCode = 1
              /\ stderr = << <<"error", exc>> >>

C6_Witness ==
    /\ pc = "exited"
    /\ exc \in SendErrors
    /\ sendCalls = 1
    /\ exitCode = 1

\* C7: once send has returned a response, the run only prints it and ends:
\* the last three outputs are the status code, the body and the headers in
\* that order, the exit status is 0, and send was called exactly once.
C7_Success ==
    response # NoResponse =>
        /\ pc \in {"print_response", "exited"}
        /\ sendCalls = 1
        /\ stderr = <<>>
        /\ pc = "exited" =>
              /\ exitCode = 0
              /\ Len(stdout) >= 3
              /\ SubSeq(stdout, Len(stdout) - 2, Len(stdout)) =
                    << <<"status_code", response.status_code>>,
                       <<"body", response.body>>,
                       <<"headers", response.headers>> >>

C7_Witness ==
    /\ pc = "exited"
    /\ response.status_code = "202"
    /\ exitCode = 0
    /\ sendCalls = 1

\* What lines 186-187 leave in args.attachments when the paths are passed
\* as separate values.
PassedSeparately(ps) ==
    IF Len(ps) = 1 /\ HasNewline(ps[1]) THEN convert_to_list(ps[1]) ELSE ps

AttachmentsParsed ==
    /\ pc \notin {"parse_args", "walk", "split_attachments"}
    /\ error \notin {"UsageError", "WalkError"}

\* a path that is not empty, holds no newline and neither starts nor ends
\* with whitespace
CleanPath(p) ==
    /\ p # <<>>
    /\ ~HasNewline(p)
    /\ p[1] \notin Whitespace
    /\ p[Len(p)] \notin Whitespace

\* C8 as stated: one value made of the paths joined by newlines gives the
\* attachment path list that the same paths give as separate values (stated
\* here for non-empty paths that hold no newline themselves).
C8_Original ==
    (joined /\ Len(paths) >= 1 /\ AttachmentsParsed
        /\ \A k \in 1..Len(paths) : paths[k] # <<>> /\ ~HasNewline(paths[k])) =>
        args_attachments.v = PassedSeparately(paths)

\* C8 amended: for one or more paths, each non-empty, without newline and
\* without leading or trailing whitespace, the newline-joined value gives
\* exactly the list of those paths, as separate values do, and attachments
\* are added in that order.
C8_JoinedEqualsSeparate ==
    (joined /\ Len(paths) >= 1 /\ AttachmentsParsed
        /\ \A k \in 1..Len(paths) : CleanPath(paths[k])) =>
        /\ args_attachments.v = paths
        /\ PassedSeparately(paths) = paths
        /\ \A k \in 1..Len(message) : message[k].filepath = paths[k]

C8_Witness ==
    /\ joined /\ Len(paths) = 2
    /\ \A k \in 1..Len(paths) : CleanPath(paths[k])
    /\ Returned
    /\ Len(message) = 2
    /\ message[2].filepath = paths[2]

\* C9: a single --attachments-disposition value holding newlines is
\* accepted by the argument parser and split into its disposition values.
C9_DispositionSplit ==
    (/\ argv_dispositions.some
     /\ Len(argv_dispositions.v) = 1
     /\ HasNewline(argv_dispositions.v[1])
     /\ pc # "parse_args") =>
        /\ error # "UsageError"
        /\ (pc \notin {"walk", "split_dispositions", "split_attachments"}
              /\ error # "WalkError") =>
              args_attachments_disposition = <<INLINE, ATTACHMENT>>

\* --attachments as typed asks for no attachment: absent, no value, one
\* empty value, or one value with a newline made of whitespace only
NoAttachmentTyped ==
    \/ ~argv_attachments.some
    \/ argv_attachments.v = <<>>
    \/ argv_attachments.v = << <<>> >>
    \/ /\ Len(argv_attachments.v) = 1
       /\ HasNewline(argv_attachments.v[1])
       /\ \A i \in 1..Len(argv_attachments.v[1]) :
              argv_attachments.v[1][i] \in Whitespace

\* C10: when no attachment is requested, add_attachments is never entered:
\* no file is opened, find_file never prints, the count check never raises,
\* and the message has no attachment whenever send is reached.
C10_NoAttachmentNoRead ==
    NoAttachmentTyped =>
        /\ pc \notin {"add_attachments", "find_file", "attach_loop"}
        /\ opened = <<>>
        /\ message = <<>>
        /\ error \notin {"ValueError", "OSError"}
        /\ \A k \in 1..Len(stdout) : stdout[k][1] # "Searching"

C10_Witness ==
    /\ argv_attachments.some
    /\ Len(argv_attachments.v) = 1
    /\ HasNewline(argv_attachments.v[1])
    /\ NoAttachmentTyped
    /\ M = 3
    /\ sendCalls = 1
    /\ message = <<>>
    /\ pc = "exited"

====
